---- MODULE Spec2Model ----
(***************************************************************************)
(* SuperK reservation worker (addons/superk/src/web_app.py).               *)
(*                                                                         *)
(* InternalServer owns five fields (_running, _thread, _status,            *)
(* _last_message, _active_payload).  HTTP handlers call start(), stop()    *)
(* and status() on the one module-level worker; start() launches a daemon  *)
(* thread running _run_loop().  Nothing is locked, so every read and write *)
(* of a field is a step of its own here, and handler steps interleave with *)
(* the steps of the background threads.                                    *)
(*                                                                         *)
(* Spec     : one foreground control path (handler 1), any number of       *)
(*            background threads it manages to create.                     *)
(* SpecConc : the handlers of Flask's threaded server run concurrently;     *)
(*            each thread is followed until its first carrier call.        *)
(* FairSpec : Spec with weak fairness of every background thread (a        *)
(*            started Python thread keeps being scheduled).                *)
(***************************************************************************)
EXTENDS Integers, Sequences, FiniteSets, TLC

\* ---------------------------------------------------------------- bounds
\* Thread objects start() may create in one run of the model.
MaxJobs == 2
\* Cap of the loop's attempt counter (the code's counter is unbounded).
MaxAttempts == 2
\* Request handlers of the HTTP layer that may be in flight at once.
NumHandlers == 2
\* Longest time string of which every spelling is tried.
MaxTimeLen == 4
\* Largest passenger count tried (and the most negative, with a minus).
MaxCount == 3

Threads == 1..MaxJobs
Handlers == 1..NumHandlers

\* ------------------------------------------------------- pure helpers
\* The result of a helper applied on its own: the value it returns, or the
\* exception it raises.
Returns(v) == [exc |-> "none", val |-> v]

Raises(e) == [exc |-> e, val |-> <<>>]

\* Characters, by what str.strip, str.isdigit and int make of them: ASCII
\* digits; "sup3", the superscript three, which isdigit accepts and int
\* rejects; the space, which strip removes; the colon, which is neither.
AsciiDigits == {"0", "1", "2", "3", "4", "5", "6", "7", "8", "9"}

IsSpace(c) == c = " "

\* str.isdigit of one character.
IsDigitChar(c) == c \in AsciiDigits \cup {"sup3"}

\* int accepts the character (a decimal digit).
IsDecimalChar(c) == c \in AsciiDigits

DecimalValue(c) ==
    CASE c = "0" -> 0 [] c = "1" -> 1 [] c = "2" -> 2 [] c = "3" -> 3
      [] c = "4" -> 4 [] c = "5" -> 5 [] c = "6" -> 6 [] c = "7" -> 7
      [] c = "8" -> 8 [] c = "9" -> 9

DecimalChar(n) == CHOOSE c \in AsciiDigits : DecimalValue(c) = n

\* str.strip
RECURSIVE LStrip(_)
LStrip(s) == IF s # <<>> /\ IsSpace(Head(s)) THEN LStrip(Tail(s)) ELSE s

RECURSIVE RStrip(_)
RStrip(s) ==
    IF s # <<>> /\ IsSpace(s[Len(s)]) THEN RStrip(SubSeq(s, 1, Len(s) - 1)) ELSE s

Strip(s) == RStrip(LStrip(s))

\* str.isdigit: non-empty and every character a digit.
IsDigit(s) == s # <<>> /\ \A i \in 1..Len(s) : IsDigitChar(s[i])

\* int(s) of a two-character string raises ValueError.
IntRaises(s) == \E i \in 1..Len(s) : ~IsDecimalChar(s[i])

\* int(s) of a two-character string of decimal digits.
IntOf(s) == 10 * DecimalValue(s[1]) + DecimalValue(s[2])

\* f"{n:02d}"
TwoDigits(n) == <<DecimalChar(n \div 10), DecimalChar(n % 10)>>

\* The default of _normalize_time_to_hhmm, "0700".
DefaultTime == <<"0", "7", "0", "0">>

\* A time value handed to _normalize_time_to_hhmm: None or a string.
NoTime == [given |-> FALSE, s |-> <<>>]

TimeString(s) == [given |-> TRUE, s |-> s]

\* _normalize_time_to_hhmm (lines 293-307)
NormalizeTimeToHhmm(value, default) ==
    LET stripped == Strip(IF value.given /\ value.s # <<>> THEN value.s ELSE default)
        candidate == IF Len(stripped) = 6 /\ IsDigit(stripped)
                     THEN SubSeq(stripped, 1, 4) ELSE stripped
    IN  IF Len(candidate) # 4 \/ ~IsDigit(candidate) THEN Returns(default)
        ELSE IF IntRaises(SubSeq(candidate, 1, 2)) THEN Raises("ValueError")
        ELSE IF IntRaises(SubSeq(candidate, 3, 4)) THEN Raises("ValueError")
        ELSE LET hh == IntOf(SubSeq(candidate, 1, 2))
                 mm == IntOf(SubSeq(candidate, 3, 4))
             IN  IF ~(0 <= hh /\ hh <= 23 /\ 0 <= mm /\ mm <= 59)
                 THEN Returns(default)
                 ELSE Returns(TwoDigits(hh) \o TwoDigits(mm))

\* _normalize_date_yyyymmdd (lines 310-312); today is what
\* datetime.now().strftime("%Y%m%d") gives.
NormalizeDateYyyymmdd(value, today) ==
    LET candidate == Strip(IF value.given /\ value.s # <<>> THEN value.s ELSE today)
    IN  IF Len(candidate) = 8 /\ IsDigit(candidate) THEN Returns(candidate)
        ELSE Returns(today)

\* A field value of the request body, by what int() makes of it:
\*   int n, a JSON integer; str n, the string of the integer n; half n, the
\*   number n + 0.5 (n >= 0); inf, the JSON literal Infinity; text, a string
\*   that is no number; none, null.
Num(k, n) == [k |-> k, n |-> n]

\* int(value): the integer, or the exception.
IntConversion(v) ==
    CASE v.k \in {"int", "str", "half"} -> Returns(v.n)
      [] v.k = "inf" -> Raises("OverflowError")
      [] v.k = "text" -> Raises("ValueError")
      [] v.k = "none" -> Raises("TypeError")

\* _to_non_negative_int (lines 315-319): max(int(value), 0), and the default
\* for the TypeError and ValueError of int().
ToNonNegativeInt(value, default) ==
    LET i == IntConversion(value)
    IN  IF i.exc = "none" THEN Returns(IF i.val > 0 THEN i.val ELSE 0)
        ELSE IF i.exc \in {"TypeError", "ValueError"} THEN Returns(default)
        ELSE i

\* Lines 339-341: the defaults of the numeric fields (path_index is the
\* number of senior passengers).
NumericFields == {"adult", "child", "path_index"}

FieldDefault(f) == IF f = "adult" THEN 1 ELSE 0

\* A field value of the request body, by what `or` and .strip() make of it:
\* absent key, null, "", a string, the same string with blanks around it,
\* another string, the number 0, another number, a non-empty list.
FieldValues ==
    {"absent", "null", "empty", "text", "padded", "other", "zero", "number", "list"}

Truthy(v) == v \in {"text", "padded", "other", "number", "list"}

IsString(v) == v \in {"empty", "text", "padded", "other"}

\* v.strip(): AttributeError for what is no string.
StripField(v) ==
    IF ~IsString(v) THEN Raises("AttributeError")
    ELSE Returns(IF v = "padded" THEN "text" ELSE v)

\* str(v).strip(), for the v that `or` hands on (truthy, or the final "").
StrStripField(v) ==
    Returns(IF v \in {"empty", "other", "number", "list"} THEN v ELSE "text")

\* Lines 323-326: a group counts only when it is a dict.
GroupKinds == {"absent", "non_dict", "dict"}

InGroup(kind, v) == IF kind = "dict" THEN v ELSE "absent"

\* (group.get(k) or payload.get(k) or "")
FirstTruthy(g, p) == IF Truthy(g) THEN g ELSE IF Truthy(p) THEN p ELSE "empty"

\* search.get(k, payload.get(k, default)): the group's value when the group
\* has the key, whatever the value, else the top-level one.
FirstPresent(g, p) == IF g.k # "absent" THEN g ELSE p

\* A request body for _extract_run_context, by one field of each pattern of
\* lines 329-347: user_id for the text fields (group value or top-level value
\* or "", then .strip()), selected_train_no (the same inside str()), adult
\* for the numeric fields (group value when the key is there, else the
\* top-level value, else the default). login and search are the groups,
\* login_user_id, search_selected_train_no and search_adult the values under
\* the groups' keys, the other three the top-level values.
RawPayload(login, login_user_id, user_id, search, search_selected_train_no, selected_train_no, search_adult, adult) ==
    [login |-> login, login_user_id |-> login_user_id, user_id |-> user_id,
     search |-> search, search_selected_train_no |-> search_selected_train_no,
     selected_train_no |-> selected_train_no,
     search_adult |-> search_adult, adult |-> adult]

\* _extract_run_context (lines 322-348): a dict literal, so the first field
\* that raises ends it.
ExtractRunContextFields(raw) ==
    LET user_id == StripField(FirstTruthy(InGroup(raw.login, raw.login_user_id), raw.user_id))
        given == FirstPresent(IF raw.search = "dict" THEN raw.search_adult
                              ELSE Num("absent", 0), raw.adult)
        adult == IF given.k = "absent" THEN Returns(FieldDefault("adult"))
                 ELSE ToNonNegativeInt(given, FieldDefault("adult"))
        selected == StrStripField(FirstTruthy(
                        InGroup(raw.search, raw.search_selected_train_no),
                        raw.selected_train_no))
    IN  IF user_id.exc # "none" THEN user_id
        ELSE IF adult.exc # "none" THEN adult
        ELSE Returns([user_id |-> user_id.val, adult |-> adult.val,
                      selected_train_no |-> selected.val])

\* {"user_id": 5}
UserIdIsNumber ==
    RawPayload("absent", "absent", "number", "absent", "absent", "absent",
               Num("absent", 0), Num("absent", 0))

\* A seat preference handed to the option mappings, by what str() and
\* .lower() make of it: the word it spells, and how it is spelled (in lower
\* case, with capital letters, or with a blank before it). "window" is a
\* word the mappings do not know, "none" what str(None).lower() gives.
SeatPreferenceWords ==
    {"general_first", "general_only", "special_first", "special_only",
     "window", "none", ""}

SeatPreference(word, spelling) == [word |-> word, spelling |-> spelling]

\* str.lower
Lower(p) ==
    SeatPreference(p.word, IF p.spelling = "capitals" THEN "lower" ELSE p.spelling)

\* The keys of the mapping dicts (lines 378-383, 388-393).
MappingKeys ==
    {SeatPreference(w, "lower") :
        w \in {"general_first", "general_only", "special_first", "special_only"}}

\* The carrier's option the mapping holds under a key.
OptionOf(key) ==
    CASE key.word = "general_first" -> "GENERAL_FIRST"
      [] key.word = "general_only" -> "GENERAL_ONLY"
      [] key.word = "special_first" -> "SPECIAL_FIRST"
      [] key.word = "special_only" -> "SPECIAL_ONLY"

KtxOptionIgnoresPreference(seat_preference) == Returns("GENERAL_FIRST")

\* _to_ktx_reserve_option (lines 377-384)
ToKtxReserveOption(seat_preference) ==
    LET key == Lower(seat_preference)
    IN  Returns(IF key \in MappingKeys THEN OptionOf(key) ELSE "GENERAL_FIRST")

\* _to_srt_reserve_option (lines 387-394)
ToSrtReserveOption(seat_preference) ==
    LET key == Lower(seat_preference)
    IN  Returns(IF key \in MappingKeys THEN OptionOf(key) ELSE "GENERAL_FIRST")

\* ------------------------------------------------------- request payloads
\* The four card fields _has_payment_info requires.
CardFields == {"card_number", "card_password_2", "birth_date", "card_expire"}

\* A request payload, by what the worker does with it:
\*   wf     - _extract_run_context returns (FALSE: it raises, e.g. the payload
\*            is a JSON list, or user_id is a number and .strip() fails)
\*   dateok - departure_date names a real calendar day (FALSE: 8 digits that
\*            datetime.strptime rejects, e.g. "20261340")
\*   sel    - selected_train_no is non-empty
\*   card   - the card fields that are non-empty
\*   rail   - rail_type
Payload(name, wf, dateok, sel, card, rail) ==
    [name |-> name, wf |-> wf, dateok |-> dateok, sel |-> sel,
     card |-> card, rail |-> rail]

\* {} : what stop() stores, and what start(None) stores.
EmptyPayload == Payload("{}", TRUE, TRUE, FALSE, {}, "ktx")
\* {"source": "legacy_form"} : what POST /start passes.
LegacyPayload == Payload("legacy_form", TRUE, TRUE, FALSE, {}, "ktx")
KtxCardPayload == Payload("ktx_card", TRUE, TRUE, TRUE, CardFields, "ktx")
SrtCardPayload == Payload("srt_card", TRUE, TRUE, TRUE, CardFields, "srt")
KtxPartialCardPayload ==
    Payload("ktx_no_expire", TRUE, TRUE, TRUE, CardFields \ {"card_expire"}, "ktx")
SrtNoCardPayload == Payload("srt_no_card", TRUE, TRUE, TRUE, {}, "srt")
\* {"user_id": 5} : no selected train, and .strip() of an int raises.
BadTypePayload ==
    Payload("bad_type", ExtractRunContextFields(UserIdIsNumber).exc = "none",
            TRUE, FALSE, {}, "ktx")
\* departure_date "20261340" with a selected train.
BadDatePayload == Payload("bad_date", TRUE, FALSE, TRUE, CardFields, "ktx")

\* The bodies POST /api/run/start and POST /start hand to start().
Payloads ==
    {LegacyPayload, KtxCardPayload, SrtCardPayload, KtxPartialCardPayload,
     SrtNoCardPayload, BadTypePayload, BadDatePayload}

\* The context a thread holds before line 78 has run.
NoContext == [sel |-> FALSE, card |-> {}, rail |-> "none", dateok |-> TRUE]

\* _extract_run_context raises AttributeError on this payload.
ExtractRaises(p) == ~p.wf

\* _extract_run_context: the canonical context of a payload it accepts.
ExtractRunContext(p) ==
    [sel |-> p.sel, card |-> p.card, rail |-> p.rail, dateok |-> p.dateok]

\* _build_start_message -> _format_date_time -> _format_date_with_day ->
\* datetime.strptime raises ValueError on a date that is no calendar day.
StartMessageRaises(ctx) == ~ctx.dateok

HasPaymentInfoAny(ctx) == ctx.card # {}

\* _has_payment_info: all four card fields are non-empty.
HasPaymentInfo(ctx) == ctx.card = CardFields

\* ------------------------------------------------------------- messages
\* A notification handed to _send_telegram: its kind and, for the messages
\* that carry one, where the seat description came from.
Msg(kind, seat) == [kind |-> kind, seat |-> seat]

\* _last_message values ("attempt" carries the attempt number).
LM(text, n) == [text |-> text, n |-> n]

\* No helper function has been applied on its own.
NoApplication == [fn |-> "none", arg |-> <<>>, out |-> <<>>]

Kinds(s) == [i \in 1..Len(s) |-> s[i].kind]

Has(s, x) == \E i \in 1..Len(s) : s[i] = x

Count(s, x) == Cardinality({i \in 1..Len(s) : s[i] = x})

\* s without its elements equal to x.
RECURSIVE Without(_, _)
Without(s, x) ==
    IF s = <<>> THEN <<>>
    ELSE IF Head(s) = x THEN Without(Tail(s), x)
         ELSE <<Head(s)>> \o Without(Tail(s), x)

\* ---------------------------------------------------------------- state
VARIABLES
    \* InternalServer fields
    running,         \* _running (threading.Event)
    thread,          \* _thread: the Thread object referenced, 0 for None
    status,          \* _status
    last_message,    \* _last_message
    active_payload,  \* _active_payload
    \* request handlers (foreground)
    hpc,             \* handler -> the line it is at, "idle" between requests
    harg,            \* handler -> the payload of the start() it is running
    hret,            \* handler -> how its last request ended
    \* background threads
    nthreads,        \* Thread objects created so far
    tpc,             \* thread -> the line it is at
    tctx,            \* thread -> payload (the local of _run_loop)
    attempt,         \* thread -> attempt (the local of _run_loop)
    texc,            \* thread -> the exception the attempt raised
    tseat,           \* thread -> seat_info (the local of _try_reserve_*)
    delivery,        \* thread -> how the _send_telegram call it has just made went
    \* history (observations, never read by the program)
    tjob,            \* thread -> the payload of the start() that created it
    texit,           \* thread -> why _run_loop ended
    tstop,           \* thread -> stop() was called since it was created
    sent,            \* thread -> the messages handed to _send_telegram
    calls,           \* thread -> carrier calls of the current attempt
    sleeps,          \* thread -> backoff sleeps taken
    unexpected,      \* thread -> attempts ended by the handler of line 108
    noSeatsOnly,     \* thread -> every attempt so far got "no seats"
    \* function applications (the pure helpers, applied on their own)
    applied          \* the latest application: function, input, result

server == <<running, thread, status, last_message, active_payload>>
handlers == <<hpc, harg, hret>>
locals == <<tpc, tctx, attempt, texc, tseat, delivery>>
history == <<tjob, texit, tstop, sent, calls, sleeps, unexpected, noSeatsOnly>>
vars == <<server, handlers, nthreads, locals, history, applied>>

\* Thread.is_alive(): started and _run_loop has neither returned nor raised.
IsAlive(t) == tpc[t] \notin {"none", "new", "done", "crashed", "freed"}

\* __init__ (lines 51-56)
Init ==
    /\ running = FALSE
    /\ thread = 0
    /\ status = "idle"
    /\ last_message = LM("waiting", 0)
    /\ active_payload = EmptyPayload
    /\ hpc = [h \in Handlers |-> "idle"]
    /\ harg = [h \in Handlers |-> EmptyPayload]
    /\ hret = [h \in Handlers |-> "none"]
    /\ nthreads = 0
    /\ tpc = [t \in Threads |-> "none"]
    /\ tctx = [t \in Threads |-> NoContext]
    /\ attempt = [t \in Threads |-> 0]
    /\ texc = [t \in Threads |-> "none"]
    /\ tseat = [t \in Threads |-> ""]
    /\ tjob = [t \in Threads |-> EmptyPayload]
    /\ texit = [t \in Threads |-> ""]
    /\ tstop = [t \in Threads |-> FALSE]
    /\ sent = [t \in Threads |-> <<>>]
    /\ calls = [t \in Threads |-> <<>>]
    /\ sleeps = [t \in Threads |-> 0]
    /\ unexpected = [t \in Threads |-> 0]
    /\ noSeatsOnly = [t \in Threads |-> TRUE]
    /\ delivery = [t \in Threads |-> "none"]
    /\ applied = NoApplication

\* ------------------------------------------------------ request handlers
\* A handler between requests.
Idle(h) == hpc[h] = "idle"

\* Lines of start() after its guard: the request was accepted.
StartBody == {"start62", "start63", "start64", "start65", "start66", "start67"}

\* start() calls in flight (each may still create a Thread object).
StartsInFlight == Cardinality({h \in Handlers : hpc[h] \in {"start59"} \cup StartBody})

HandlerGoto(h, pc) == hpc' = [hpc EXCEPT ![h] = pc]

HandlerReturn(h, how) ==
    /\ hpc' = [hpc EXCEPT ![h] = "idle"]
    /\ harg' = [harg EXCEPT ![h] = EmptyPayload]
    /\ hret' = [hret EXCEPT ![h] = how]

\* api_run_start / start_server (lines 767-770, 799-804): a request arrives and
\* its handler calls worker.start(p).
StartCall(h, p) ==
    /\ Idle(h)
    /\ nthreads + StartsInFlight < MaxJobs
    /\ hpc' = [hpc EXCEPT ![h] = "start59"]
    /\ harg' = [harg EXCEPT ![h] = p]
    /\ hret' = [hret EXCEPT ![h] = "none"]
    /\ UNCHANGED <<applied, server, nthreads, locals, history>>

\* A guard on the status field instead of the thread's liveness.
StartGuardOnStatus == status = "running"

\* A guard on the running flag instead of the thread's liveness.
StartGuardOnFlag == running

\* Line 59: self._thread and self._thread.is_alive()
StartGuard == thread # 0 /\ IsAlive(thread)

\* Lines 59-60: the guard of start(); a live thread drops the request.
Start59(h) ==
    /\ hpc[h] = "start59"
    /\ IF StartGuard
       THEN HandlerReturn(h, "dropped")
       ELSE HandlerGoto(h, "start62") /\ UNCHANGED <<harg, hret>>
    /\ UNCHANGED <<applied, server, nthreads, locals, history>>

\* Line 62: self._active_payload = payload or {}
Start62(h) ==
    /\ hpc[h] = "start62"
    /\ active_payload' = harg[h]
    /\ HandlerGoto(h, "start63")
    /\ UNCHANGED <<applied, running, thread, status, last_message, harg, hret,
                   nthreads, locals, history>>

\* Line 63: self._running.set()
Start63(h) ==
    /\ hpc[h] = "start63"
    /\ running' = TRUE
    /\ HandlerGoto(h, "start64")
    /\ UNCHANGED <<applied, thread, status, last_message, active_payload, harg, hret,
                   nthreads, locals, history>>

\* Line 64: self._status = "running"
Start64(h) ==
    /\ hpc[h] = "start64"
    /\ status' = "running"
    /\ HandlerGoto(h, "start65")
    /\ UNCHANGED <<applied, running, thread, last_message, active_payload, harg, hret,
                   nthreads, locals, history>>

\* Line 65: self._last_message = "서버 시작"
Start65(h) ==
    /\ hpc[h] = "start65"
    /\ last_message' = LM("server_start", 0)
    /\ HandlerGoto(h, "start66")
    /\ UNCHANGED <<applied, running, thread, status, active_payload, harg, hret,
                   nthreads, locals, history>>

\* A Thread object that has ended and that _thread no longer references is
\* garbage: Python frees it, and what was observed of it is dropped with it.
Freed(t) == tpc[t] \in {"done", "crashed"}

Keep(f, init, new) == [t \in Threads |-> IF t # new /\ Freed(t) THEN init ELSE f[t]]

\* Line 66: self._thread = threading.Thread(target=self._run_loop, daemon=True)
Start66(h) ==
    /\ hpc[h] = "start66"
    /\ nthreads < MaxJobs
    /\ nthreads' = nthreads + 1
    /\ thread' = nthreads + 1
    /\ tpc' = [Keep(tpc, "freed", nthreads + 1) EXCEPT ![nthreads + 1] = "new"]
    /\ tjob' = [Keep(tjob, EmptyPayload, nthreads + 1) EXCEPT ![nthreads + 1] = harg[h]]
    /\ tctx' = Keep(tctx, NoContext, nthreads + 1)
    /\ attempt' = Keep(attempt, 0, nthreads + 1)
    /\ texc' = Keep(texc, "none", nthreads + 1)
    /\ tseat' = Keep(tseat, "", nthreads + 1)
    /\ texit' = Keep(texit, "", nthreads + 1)
    /\ tstop' = Keep(tstop, FALSE, nthreads + 1)
    /\ sent' = Keep(sent, <<>>, nthreads + 1)
    /\ calls' = Keep(calls, <<>>, nthreads + 1)
    /\ sleeps' = Keep(sleeps, 0, nthreads + 1)
    /\ unexpected' = Keep(unexpected, 0, nthreads + 1)
    /\ noSeatsOnly' = Keep(noSeatsOnly, TRUE, nthreads + 1)
    /\ delivery' = Keep(delivery, "none", nthreads + 1)
    /\ HandlerGoto(h, "start67")
    /\ UNCHANGED <<applied, running, status, last_message, active_payload, harg, hret>>

\* Line 67: self._thread.start(); Thread.start() raises RuntimeError when the
\* object it is called on was started before.
Start67(h) ==
    /\ hpc[h] = "start67"
    /\ IF tpc[thread] = "new"
       THEN /\ tpc' = [tpc EXCEPT ![thread] = "run78"]
            /\ HandlerReturn(h, "none")
       ELSE /\ UNCHANGED tpc
            /\ HandlerReturn(h, "error")
    /\ UNCHANGED <<applied, server, nthreads, tctx, attempt, texc, tseat, delivery, history>>

\* api_run_stop / stop_server calling stop(), line 71: self._running.clear()
StopCall(h) ==
    /\ Idle(h)
    /\ running' = FALSE
    /\ tstop' = [t \in Threads |-> tstop[t] \/ tpc[t] \notin {"none", "freed"}]
    /\ hpc' = [hpc EXCEPT ![h] = "stop72"]
    /\ hret' = [hret EXCEPT ![h] = "none"]
    /\ UNCHANGED <<applied, thread, status, last_message, active_payload, harg,
                   nthreads, locals, tjob, texit, sent, calls, sleeps, unexpected, noSeatsOnly>>

\* Line 72: self._status = "stopped"
Stop72(h) ==
    /\ hpc[h] = "stop72"
    /\ status' = "stopped"
    /\ HandlerGoto(h, "stop73")
    /\ UNCHANGED <<applied, running, thread, last_message, active_payload, harg, hret,
                   nthreads, locals, history>>

\* Line 73: self._last_message = "서버 중지"
Stop73(h) ==
    /\ hpc[h] = "stop73"
    /\ last_message' = LM("server_stop", 0)
    /\ HandlerGoto(h, "stop74")
    /\ UNCHANGED <<applied, running, thread, status, active_payload, harg, hret,
                   nthreads, locals, history>>

\* Line 74: self._active_payload = {}
Stop74(h) ==
    /\ hpc[h] = "stop74"
    /\ active_payload' = EmptyPayload
    /\ HandlerReturn(h, "none")
    /\ UNCHANGED <<applied, running, thread, status, last_message,
                   nthreads, locals, history>>

\* api_status calling status() (lines 284-290): reads the fields, writes none.
StatusCall(h) ==
    /\ Idle(h)
    /\ hpc' = [hpc EXCEPT ![h] = "status285"]
    /\ hret' = [hret EXCEPT ![h] = "none"]
    /\ UNCHANGED <<applied, server, harg, nthreads, locals, history>>

\* Line 285: return the dict of the four values read.
Status285(h) ==
    /\ hpc[h] = "status285"
    /\ HandlerReturn(h, "none")
    /\ UNCHANGED <<applied, server, nthreads, locals, history>>

\* ---------------------------------------------------- carrier, as called
NeverRuntimeError(e) == FALSE

EveryFailureIsDuplicate(e) == TRUE

\* What a call into the rail client can do: return, or raise.  An exception
\* is told apart by what the loop's handlers test: whether it is a
\* RuntimeError (line 100) and whether its text holds WRR800029 (line 102).
IsRuntimeError(e) == e \in {"RuntimeError", "RuntimeError:WRR800029"}

HasDuplicateMarker(e) == e \in {"RuntimeError:WRR800029", "Exception:WRR800029"}

\* client.login (lines 127, 200)
LoginOutcomes == {"ok", "RuntimeError", "Exception"}

\* client.search_train, then the lookup of the selected train and the test of
\* its availability flags (lines 128-144, 201-215): the call raises, or the
\* list lacks the train, or holds it with or without a seat to book.
SearchOutcomes == {"RuntimeError", "Exception", "not_found", "no_seats", "available"}

\* client.reserve (lines 147, 218)
ReserveOutcomes ==
    {"ok", "RuntimeError", "RuntimeError:WRR800029", "Exception", "Exception:WRR800029"}

\* client.ticket_info (lines 151-153); reservation.tickets for SRT (line 220)
TicketInfoOutcomes == {"seats", "empty", "raise"}

\* client.pay_with_card (lines 163, 229)
PayOutcomes == {"true", "false", "raise"}

Call(op, res) == [op |-> op, res |-> res]

\* ---------------------------------------------------- background thread
\* The thread moves on to pc by a step that makes no _send_telegram call.
ThreadGoto(t, pc) ==
    /\ tpc' = [tpc EXCEPT ![t] = pc]
    /\ delivery' = [delivery EXCEPT ![t] = "none"]

\* _run_loop returns.
Exit(t, why) ==
    /\ ThreadGoto(t, "done")
    /\ texit' = [texit EXCEPT ![t] = why]

\* _run_loop ends with an uncaught exception: the thread dies as it stands.
Crash(t, why) ==
    /\ ThreadGoto(t, "crashed")
    /\ texit' = [texit EXCEPT ![t] = why]

\* _send_telegram (lines 265-282): nothing is posted without a token and a
\* chat id; else requests.post returns a success or a non-success response,
\* or raises.
SendOutcomes == {"skipped", "ok", "not_ok", "raise"}

SendFailurePropagates(d, pc) == IF d = "raise" THEN "crashed" ELSE pc

\* Lines 271-282: the post sits in try/except Exception and both responses
\* are only logged, so _send_telegram returns to its caller whatever happened.
AfterSend(d, pc) == pc

\* The message is handed to _send_telegram, which returns; the caller goes on
\* to pc.
Send(t, m, pc) ==
    \E d \in SendOutcomes :
        /\ sent' = [sent EXCEPT ![t] = Append(@, m)]
        /\ delivery' = [delivery EXCEPT ![t] = d]
        /\ tpc' = [tpc EXCEPT ![t] = AfterSend(d, pc)]

\* No message is handed over in this step.
NoSend == UNCHANGED sent

Record(t, op, res) == calls' = [calls EXCEPT ![t] = Append(@, Call(op, res))]

\* The attempt raises e: control leaves _try_reserve for the handlers of line 100.
Raise(t, e) ==
    /\ texc' = [texc EXCEPT ![t] = e]
    /\ ThreadGoto(t, "except")

\* Lines 78-80: read _active_payload, normalise it, test the selected train.
Run78(t) ==
    /\ tpc[t] = "run78"
    /\ IF ExtractRaises(active_payload)
       THEN Crash(t, "crash78") /\ UNCHANGED tctx
       ELSE /\ tctx' = [tctx EXCEPT ![t] = ExtractRunContext(active_payload)]
            /\ ThreadGoto(t, IF active_payload.sel THEN "run87" ELSE "run82")
            /\ UNCHANGED texit
    /\ UNCHANGED <<applied, server, handlers, nthreads, attempt, texc, tseat,
                   tjob, tstop, sent, calls, sleeps, unexpected, noSeatsOnly>>

\* Line 82: self._status = "stopped"
Run82(t) ==
    /\ tpc[t] = "run82"
    /\ status' = "stopped"
    /\ ThreadGoto(t, "run83")
    /\ UNCHANGED <<applied, running, thread, last_message, active_payload, handlers,
                   nthreads, tctx, attempt, texc, tseat, history>>

\* Line 83: self._last_message = "선택된 열차가 없습니다"
Run83(t) ==
    /\ tpc[t] = "run83"
    /\ last_message' = LM("no_train_selected", 0)
    /\ ThreadGoto(t, "run84")
    /\ UNCHANGED <<applied, running, thread, status, active_payload, handlers,
                   nthreads, tctx, attempt, texc, tseat, history>>

\* Lines 84-85: self._running.clear(); return
Run84(t) ==
    /\ tpc[t] = "run84"
    /\ running' = FALSE
    /\ Exit(t, "rejected")
    /\ UNCHANGED <<applied, thread, status, last_message, active_payload, handlers,
                   nthreads, tctx, attempt, texc, tseat,
                   tjob, tstop, sent, calls, sleeps, unexpected, noSeatsOnly>>

\* Line 87: build the start message, hand it to _send_telegram.
Run87(t) ==
    /\ tpc[t] = "run87"
    /\ IF StartMessageRaises(tctx[t])
       THEN Crash(t, "crash87") /\ NoSend
       ELSE Send(t, Msg("start", ""), "run90") /\ UNCHANGED texit
    /\ UNCHANGED <<applied, server, handlers, nthreads, tctx, attempt, texc, tseat,
                   tjob, tstop, calls, sleeps, unexpected, noSeatsOnly>>

LoopContinuesAlways == TRUE

\* Line 90: self._running.is_set()
LoopContinues == running

\* Lines 90-91: the loop's test; a cleared flag ends _run_loop.
Run90(t) ==
    /\ tpc[t] = "run90"
    /\ IF LoopContinues
       THEN /\ attempt[t] < MaxAttempts
            /\ attempt' = [attempt EXCEPT ![t] = @ + 1]
            /\ ThreadGoto(t, "run92")
            /\ UNCHANGED texit
       ELSE Exit(t, "flag") /\ UNCHANGED attempt
    /\ UNCHANGED <<applied, server, handlers, nthreads, tctx, texc, tseat,
                   tjob, tstop, sent, calls, sleeps, unexpected, noSeatsOnly>>

\* Lines 92-95: self._last_message = f"예약 시도 #{attempt}", enter _try_reserve.
Run92(t) ==
    /\ tpc[t] = "run92"
    /\ last_message' = LM("attempt", attempt[t])
    /\ calls' = [calls EXCEPT ![t] = <<>>]
    /\ texc' = [texc EXCEPT ![t] = "none"]
    /\ ThreadGoto(t, "login")
    /\ UNCHANGED <<applied, running, thread, status, active_payload, handlers,
                   nthreads, tctx, attempt, tseat,
                   tjob, texit, tstop, sent, sleeps, unexpected, noSeatsOnly>>

\* _try_reserve_ktx / _try_reserve_srt, lines 126-127 / 199-200: login.
Login(t) ==
    /\ tpc[t] = "login"
    /\ \E o \in LoginOutcomes :
         /\ Record(t, "login", o)
         /\ noSeatsOnly' = [noSeatsOnly EXCEPT ![t] = @ /\ o = "ok"]
         /\ IF o = "ok" THEN ThreadGoto(t, "search") /\ UNCHANGED texc
                        ELSE Raise(t, o)
    /\ UNCHANGED <<applied, server, handlers, nthreads, tctx, attempt, tseat,
                   tjob, texit, tstop, sent, sleeps, unexpected>>

ReservesWithoutSeats(o) == IF o \in {"available", "no_seats"} THEN "reserve" ELSE "except"

\* Lines 138-144 / 209-215: where control goes after the search: on to reserve
\* when the list holds the selected train and one of its three availability
\* tests (general, special, waiting list or standby) is true.
AfterSearch(o) == IF o = "available" THEN "reserve" ELSE "except"

\* Lines 128-144 / 201-215: search, find the selected train, test its seats.
\* A missing train and a train without seats raise RuntimeError here.
Search(t) ==
    /\ tpc[t] = "search"
    /\ \E o \in SearchOutcomes :
         /\ Record(t, "search", o)
         /\ noSeatsOnly' = [noSeatsOnly EXCEPT ![t] = @ /\ o = "no_seats"]
         /\ IF AfterSearch(o) = "reserve" THEN ThreadGoto(t, "reserve") /\ UNCHANGED texc
            ELSE IF o \in {"RuntimeError", "Exception"} THEN Raise(t, o)
            ELSE Raise(t, "RuntimeError")
    /\ UNCHANGED <<applied, server, handlers, nthreads, tctx, attempt, tseat,
                   tjob, texit, tstop, sent, sleeps, unexpected>>

ReserveSwallowsFailure(o) == "enrich"

\* Line 147 / 218: where control goes after client.reserve returned or raised.
AfterReserve(o) == IF o = "ok" THEN "enrich" ELSE "except"

\* Lines 146-147 / 217-218: reserve the selected train.
Reserve(t) ==
    /\ tpc[t] = "reserve"
    /\ \E o \in ReserveOutcomes :
         /\ Record(t, "reserve", o)
         /\ ThreadGoto(t, AfterReserve(o))
         /\ texc' = [texc EXCEPT ![t] = IF o = "ok" THEN @ ELSE o]
    /\ UNCHANGED <<applied, server, handlers, nthreads, tctx, attempt, tseat,
                   tjob, texit, tstop, sent, sleeps, unexpected, noSeatsOnly>>

SeatInfoAlwaysDetail(o) == "detail"

\* Lines 148-153 / 219-221: the seat description of the success message: the
\* seats the lookup returned, else the label of the seat preference.
SeatInfo(o) == IF o = "seats" THEN "detail" ELSE "label"

EnrichErrorPropagates(o) == IF o = "raise" THEN "except" ELSE "notify"

\* Lines 150-155: client.ticket_info sits in try/except Exception, so control
\* goes on to the success message whatever the lookup did.
AfterEnrich(o) == "notify"

\* Lines 148-155 (KTX: ticket_info in a try/except that only logs) and
\* 219-221 (SRT: reservation.tickets, no call): the seat description.
Enrich(t) ==
    /\ tpc[t] = "enrich"
    /\ \E o \in TicketInfoOutcomes :
         /\ IF tctx[t].rail = "srt"
            THEN o # "raise" /\ UNCHANGED calls
            ELSE Record(t, "ticket_info", o)
         /\ tseat' = [tseat EXCEPT ![t] = SeatInfo(o)]
         /\ ThreadGoto(t, AfterEnrich(o))
    /\ UNCHANGED <<applied, server, handlers, nthreads, tctx, attempt, texc,
                   tjob, texit, tstop, sent, sleeps, unexpected, noSeatsOnly>>

\* Line 158 / 224: the success message.
NotifySuccess(t) ==
    /\ tpc[t] = "notify"
    /\ Send(t, Msg("success", tseat[t]), "pay")
    /\ UNCHANGED <<applied, server, handlers, nthreads, tctx, attempt, texc, tseat,
                   tjob, texit, tstop, calls, sleeps, unexpected, noSeatsOnly>>

PayErrorPropagates(o) == IF o = "raise" THEN "except" ELSE "run96"

\* Lines 162-192 / 228-258: pay_with_card sits in try/except Exception, so
\* _try_reserve returns to line 96 whatever the call did.
AfterPay(o) == "run96"

PayMessageAlwaysRequired(o) == "payment_required"

\* Lines 171-192 / 237-258: the message that follows pay_with_card.
PayMessage(o) == IF o = "true" THEN "payment_complete" ELSE "payment_required"

\* Lines 160-194 / 226-263: pay when the card is complete, else ask for payment.
Pay(t) ==
    /\ tpc[t] = "pay"
    /\ IF HasPaymentInfo(tctx[t])
       THEN \E o \in PayOutcomes :
              /\ Record(t, "pay", o)
              /\ texc' = [texc EXCEPT ![t] = IF AfterPay(o) = "except" THEN "Exception" ELSE @]
              /\ IF AfterPay(o) = "except" THEN ThreadGoto(t, "except") /\ NoSend
                 ELSE Send(t, Msg(PayMessage(o), tseat[t]), AfterPay(o))
       ELSE /\ Send(t, Msg("payment_required", tseat[t]), "run96")
            /\ UNCHANGED <<calls, texc>>
    /\ UNCHANGED <<applied, server, handlers, nthreads, tctx, attempt, tseat,
                   tjob, texit, tstop, sleeps, unexpected, noSeatsOnly>>

\* Line 96: self._status = "completed"
Run96(t) ==
    /\ tpc[t] = "run96"
    /\ status' = "completed"
    /\ ThreadGoto(t, "run97")
    /\ UNCHANGED <<applied, running, thread, last_message, active_payload, handlers,
                   nthreads, tctx, attempt, texc, tseat, history>>

\* Line 97: self._last_message = "예약 성공"
Run97(t) ==
    /\ tpc[t] = "run97"
    /\ last_message' = LM("reserved", 0)
    /\ ThreadGoto(t, "run98")
    /\ UNCHANGED <<applied, running, thread, status, active_payload, handlers,
                   nthreads, tctx, attempt, texc, tseat, history>>

\* Lines 98-99: self._running.clear(); return
Run98(t) ==
    /\ tpc[t] = "run98"
    /\ running' = FALSE
    /\ Exit(t, "completed")
    /\ UNCHANGED <<applied, thread, status, last_message, active_payload, handlers,
                   nthreads, tctx, attempt, texc, tseat,
                   tjob, tstop, sent, calls, sleeps, unexpected, noSeatsOnly>>

NotifiesEveryFailure(e) == ~(IsRuntimeError(e) /\ HasDuplicateMarker(e))

\* Lines 108-110: the failures that send the generic error message are the
\* exceptions that are no RuntimeError.
NotifiesError(e) == ~IsRuntimeError(e)

\* Lines 100-110: the handlers of the attempt's exception.  A RuntimeError
\* whose text holds WRR800029 sends the duplicate warning and goes on to
\* stop the worker; any other RuntimeError is only logged; every other
\* exception sends the generic error message.  All but the first fall
\* through to the backoff of line 112.
Except(t) ==
    /\ tpc[t] = "except"
    /\ unexpected' = [unexpected EXCEPT ![t] = IF IsRuntimeError(texc[t]) THEN @ ELSE @ + 1]
    /\ IF IsRuntimeError(texc[t]) /\ HasDuplicateMarker(texc[t])
       THEN Send(t, Msg("duplicate", ""), "run104")
       ELSE IF NotifiesError(texc[t])
            THEN Send(t, Msg("error", ""), "run112")
            ELSE ThreadGoto(t, "run112") /\ NoSend
    /\ UNCHANGED <<applied, server, handlers, nthreads, tctx, attempt, texc, tseat,
                   tjob, texit, tstop, calls, sleeps, noSeatsOnly>>

\* Line 104: self._status = "stopped"
Run104(t) ==
    /\ tpc[t] = "run104"
    /\ status' = "stopped"
    /\ ThreadGoto(t, "run105")
    /\ UNCHANGED <<applied, running, thread, last_message, active_payload, handlers,
                   nthreads, tctx, attempt, texc, tseat, history>>

\* Line 105: self._last_message = "중복 예약으로 중지"
Run105(t) ==
    /\ tpc[t] = "run105"
    /\ last_message' = LM("duplicate_stop", 0)
    /\ ThreadGoto(t, "run106")
    /\ UNCHANGED <<applied, running, thread, status, active_payload, handlers,
                   nthreads, tctx, attempt, texc, tseat, history>>

\* Lines 106-107: self._running.clear(); return
Run106(t) ==
    /\ tpc[t] = "run106"
    /\ running' = FALSE
    /\ Exit(t, "duplicate")
    /\ UNCHANGED <<applied, thread, status, last_message, active_payload, handlers,
                   nthreads, tctx, attempt, texc, tseat,
                   tjob, tstop, sent, calls, sleeps, unexpected, noSeatsOnly>>

\* Lines 112-114: time.sleep(random.uniform(1.5, 3.8)), back to line 90.
Run112(t) ==
    /\ tpc[t] = "run112"
    /\ sleeps' = [sleeps EXCEPT ![t] = @ + 1]
    /\ ThreadGoto(t, "run90")
    /\ UNCHANGED <<applied, server, handlers, nthreads, tctx, attempt, texc, tseat,
                   tjob, texit, tstop, sent, calls, unexpected, noSeatsOnly>>

\* ------------------------------------------------------- specifications
\* _run_loop from its start to the entry of an attempt (lines 78-95).
StartupStep(t) ==
    \/ Run78(t) \/ Run82(t) \/ Run83(t) \/ Run84(t) \/ Run87(t)
    \/ Run90(t) \/ Run92(t)

\* One attempt and what _run_loop does with its result (lines 96-114, 116-263).
AttemptStep(t) ==
    \/ Login(t) \/ Search(t) \/ Reserve(t) \/ Enrich(t) \/ NotifySuccess(t) \/ Pay(t)
    \/ Run96(t) \/ Run97(t) \/ Run98(t)
    \/ Except(t) \/ Run104(t) \/ Run105(t) \/ Run106(t) \/ Run112(t)

\* One step of background thread t.
ThreadStep(t) == StartupStep(t) \/ AttemptStep(t)

\* One step of request handler h.
HandlerStep(h) ==
    \/ \E p \in Payloads : StartCall(h, p)
    \/ Start59(h) \/ Start62(h) \/ Start63(h) \/ Start64(h) \/ Start65(h)
    \/ Start66(h) \/ Start67(h)
    \/ StopCall(h) \/ Stop72(h) \/ Stop73(h) \/ Stop74(h)
    \/ StatusCall(h) \/ Status285(h)

\* The inputs the helpers are applied to.
TimeChars == {"0", "2", "3", "5", "6", "9", "sup3", " ", ":"}

TimeInputs ==
    {NoTime}
    \cup {TimeString(s) : s \in UNION {[1..n -> TimeChars] : n \in 0..MaxTimeLen}}
    \cup {TimeString(<<" ">> \o s) : s \in [1..4 -> {"0", "2", "3", "9"}]}
    \cup {TimeString(s \o r) : s \in [1..4 -> {"0", "2", "6", "9"}],
                               r \in [1..2 -> {"0", "9", ":"}]}

NumericInputs ==
    {Num("absent", 0), Num("none", 0), Num("text", 0), Num("inf", 0)}
    \cup {Num(k, n) : k \in {"int", "str"}, n \in (0 - MaxCount)..MaxCount}
    \cup {Num("half", n) : n \in 0..MaxCount}

\* The values tried under the search group's key of a numeric field.
NestedNumericInputs ==
    {Num("absent", 0), Num("none", 0), Num("text", 0), Num("inf", 0),
     Num("int", 0 - 1), Num("int", 0), Num("int", 2), Num("str", 2)}

\* Bodies that vary one field at a time, the other fields left out.
RawPayloads ==
    {RawPayload(g, gv, v, "absent", "absent", "absent", Num("absent", 0), Num("absent", 0)) :
        g \in GroupKinds, gv \in FieldValues, v \in FieldValues}
    \cup {RawPayload("absent", "absent", "absent", g, gv, v, Num("absent", 0), Num("absent", 0)) :
        g \in GroupKinds, gv \in FieldValues, v \in FieldValues}
    \cup {RawPayload("absent", "absent", "absent", g, "absent", "absent", ga, a) :
        g \in GroupKinds, ga \in NestedNumericInputs, a \in NumericInputs}

\* The days the clock may show when _normalize_date_yyyymmdd runs.
Todays == {<<"2", "0", "2", "6", "1", "1", "0", "3">>,
           <<"2", "0", "2", "6", "1", "1", "0", "4">>}

DatePrefix == <<"2", "0", "2", "6", "0", "2">>

DateInputs ==
    {NoTime}
    \cup {TimeString(s) : s \in UNION {[1..n -> {"2", "sup3", " "}] : n \in 0..2}}
    \cup {TimeString(DatePrefix \o s) : s \in UNION {[1..n -> TimeChars] : n \in 1..2}}
    \cup {TimeString(DatePrefix \o s) : s \in [1..3 -> {"0", "2", " ", ":"}]}
    \cup {TimeString(<<" ">> \o DatePrefix \o s \o <<" ">>) : s \in [1..2 -> {"0", "2"}]}

SeatPreferenceInputs ==
    {SeatPreference(w, sp) :
        w \in SeatPreferenceWords \ {""}, sp \in {"lower", "capitals", "padded"}}
    \cup {SeatPreference("", "lower")}

Application(fn, arg, out) == [fn |-> fn, arg |-> arg, out |-> out]

\* _normalize_time_to_hhmm(value) with its default "0700" (lines 337, 448).
ApplyNormalizeTime(value) ==
    /\ applied = NoApplication
    /\ applied' = Application("_normalize_time_to_hhmm", value,
                              NormalizeTimeToHhmm(value, DefaultTime))
    /\ UNCHANGED <<server, handlers, nthreads, locals, history>>

\* Lines 339-341: a numeric field of the body through _to_non_negative_int.
ApplyToNonNegativeInt(f, value) ==
    /\ applied = NoApplication
    /\ applied' = Application("_to_non_negative_int", [field |-> f, value |-> value],
                              ToNonNegativeInt(value, FieldDefault(f)))
    /\ UNCHANGED <<server, handlers, nthreads, locals, history>>

\* _extract_run_context(payload)
ApplyExtractRunContext(raw) ==
    /\ applied = NoApplication
    /\ applied' = Application("_extract_run_context", raw, ExtractRunContextFields(raw))
    /\ UNCHANGED <<server, handlers, nthreads, locals, history>>

\* _normalize_date_yyyymmdd(value) on a day today (line 336).
ApplyNormalizeDate(value, today) ==
    /\ applied = NoApplication
    /\ applied' = Application("_normalize_date_yyyymmdd",
                              [value |-> value, today |-> today],
                              NormalizeDateYyyymmdd(value, today))
    /\ UNCHANGED <<server, handlers, nthreads, locals, history>>

\* _to_ktx_reserve_option(seat_preference, ReserveOption) (line 146)
ApplyToKtxReserveOption(seat_preference) ==
    /\ applied = NoApplication
    /\ applied' = Application("_to_ktx_reserve_option", seat_preference,
                              ToKtxReserveOption(seat_preference))
    /\ UNCHANGED <<server, handlers, nthreads, locals, history>>

\* _to_srt_reserve_option(seat_preference, SeatType) (line 217)
ApplyToSrtReserveOption(seat_preference) ==
    /\ applied = NoApplication
    /\ applied' = Application("_to_srt_reserve_option", seat_preference,
                              ToSrtReserveOption(seat_preference))
    /\ UNCHANGED <<server, handlers, nthreads, locals, history>>

\* One helper is applied to one input.
NextPure ==
    \/ \E value \in TimeInputs : ApplyNormalizeTime(value)
    \/ \E f \in NumericFields : \E value \in NumericInputs \ {Num("absent", 0)} :
         ApplyToNonNegativeInt(f, value)
    \/ \E value \in DateInputs : \E today \in Todays : ApplyNormalizeDate(value, today)
    \/ \E pref \in SeatPreferenceInputs : ApplyToKtxReserveOption(pref)
    \/ \E pref \in SeatPreferenceInputs : ApplyToSrtReserveOption(pref)
    \/ \E raw \in RawPayloads : ApplyExtractRunContext(raw)

SpecPure == Init /\ [][NextPure]_vars

\* One foreground control path: requests are handled one after the other.
Next ==
    \/ HandlerStep(1)
    \/ \E t \in Threads : ThreadStep(t)

\* Flask's threaded server: requests are handled concurrently.  The threads
\* are followed up to their first carrier call, which is then in flight.
NextConc ==
    \/ \E h \in Handlers : HandlerStep(h)
    \/ \E t \in Threads : StartupStep(t)

Spec == Init /\ [][Next]_vars

SpecConc == Init /\ [][NextConc]_vars

\* A started thread keeps running: weak fairness of each thread's steps.
FairSpec == Spec /\ \A t \in Threads : WF_vars(ThreadStep(t))

\* ------------------------------------------------------------ properties
\* Job t has ended and the fields are as it left them: it is the thread
\* _thread references, stop() was not called since it was created, and no
\* later start() has been accepted.
Settled(t) ==
    /\ tpc[t] \in {"done", "crashed"}
    /\ thread = t
    /\ ~tstop[t]
    /\ \A h \in Handlers : hpc[h] \notin StartBody

\* n generic error messages.
Errors(n) == [i \in 1..n |-> "error"]

\* The current attempt of t made this carrier call with this result.
Called(t, op, res) == Has(calls[t], Call(op, res))

\* C1: a start() that runs its guard while a background thread is alive
\* returns at once: payload, status, last message, running flag and thread
\* reference keep their values, no Thread object is created, and the thread
\* that is alive keeps its own payload and position.
C1_StartWhileAliveChangesNothing ==
    [][\A h \in Handlers :
          (/\ hpc[h] = "start59"
           /\ hpc'[h] # "start59"
           /\ \E t \in Threads : IsAlive(t))
          => /\ hpc'[h] = "idle"
             /\ hret'[h] = "dropped"
             /\ UNCHANGED <<server, nthreads, locals, history>>]_vars

\* C1 witness: a start() was dropped while the job of the earlier start(),
\* with its payload still stored, is in the middle of an attempt.
C1_Witness ==
    /\ hret[1] = "dropped"
    /\ thread # 0
    /\ tpc[thread] = "search"
    /\ tjob[thread] = KtxCardPayload
    /\ active_payload = KtxCardPayload
    /\ status = "running"

\* C2: at most one background retry loop is alive at any time.
C2_AtMostOneLoopAlive == Cardinality({t \in Threads : IsAlive(t)}) <= 1

\* C3: status is "completed" only when the last attempt of the job logged in,
\* found the selected train with a seat and got a reservation back from
\* client.reserve.
C3_CompletedOnlyAfterReserve ==
    status = "completed" =>
        /\ thread # 0
        /\ Len(calls[thread]) >= 3
        /\ SubSeq(calls[thread], 1, 3) =
             <<Call("login", "ok"), Call("search", "available"), Call("reserve", "ok")>>

\* C3 witness: completed by the second attempt, after a first one that failed.
C3_Witness ==
    /\ status = "completed"
    /\ thread # 0
    /\ attempt[thread] = 2
    /\ tpc[thread] = "done"

\* The last carrier call of t is a reserve that failed with WRR800029 in the
\* failure message.
DuplicateSignalled(t) ==
    /\ calls[t] # <<>>
    /\ calls[t][Len(calls[t])].op = "reserve"
    /\ HasDuplicateMarker(calls[t][Len(calls[t])].res)

\* C4: after a reserve that fails with the duplicate-booking code the worker
\* takes the stopping path only: one duplicate warning, status stopped, flag
\* cleared, no backoff sleep, no further attempt.
C4_DuplicateStopsWorker ==
    \A t \in Threads :
        DuplicateSignalled(t) =>
            /\ tpc[t] \in {"except", "run104", "run105", "run106", "done"}
            /\ tpc[t] # "except" => Count(Kinds(sent[t]), "duplicate") = 1
            /\ sleeps[t] = attempt[t] - 1
            /\ tpc[t] = "done" => texit[t] = "duplicate"
            /\ Settled(t) => status = "stopped" /\ ~running

\* The carrier has answered every attempt of t so far with "no seats" (the
\* attempt in progress has not met anything else) and stop() was not called.
NoSeatsJob(t) == attempt[t] >= 1 /\ noSeatsOnly[t] /\ ~tstop[t]

\* C5 (state part): while the carrier only reports no seats and stop() is not
\* called, the loop is alive, status is running and the flag set, the start
\* message is the only message, and a backoff sleep lies between every two
\* attempts (attempt k runs after k-1 sleeps).
C5_NoSeatsState ==
    \A t \in Threads :
        NoSeatsJob(t) =>
            /\ IsAlive(t)
            /\ status = "running"
            /\ running
            /\ Kinds(sent[t]) = <<"start">>
            /\ sleeps[t] = IF tpc[t] = "run90" THEN attempt[t] ELSE attempt[t] - 1

\* C5: the state part always holds, and the loop goes on to the next attempt
\* for as long as the carrier only reports no seats and stop() is not called.
C5_NoSeatsRetriesSilently ==
    /\ []C5_NoSeatsState
    /\ \A t \in Threads : \A k \in 1..(MaxAttempts - 1) :
         (NoSeatsJob(t) /\ attempt[t] = k) ~> (attempt[t] = k + 1 \/ ~NoSeatsJob(t))

\* C5 witness: a second attempt under way after a first that found no seats.
C5_Witness ==
    \E t \in Threads :
        /\ NoSeatsJob(t)
        /\ attempt[t] = 2
        /\ sleeps[t] = 1
        /\ Called(t, "search", "no_seats")

\* Job t has ended after a reservation and a payment that both succeeded,
\* with a complete card.
PaidJobDone(t) ==
    /\ tpc[t] = "done"
    /\ HasPaymentInfo(tctx[t])
    /\ Called(t, "reserve", "ok")
    /\ Called(t, "pay", "true")

\* C6 as claimed: such a job ends completed and its messages are exactly
\* start, success, payment complete.
C6_ExactlyThreeMessages ==
    \A t \in Threads :
        PaidJobDone(t) =>
            /\ texit[t] = "completed"
            /\ Kinds(sent[t]) = <<"start", "success", "payment_complete">>
            /\ Settled(t) => status = "completed" /\ ~running

\* C6 amended: such a job ends completed and its messages are, in order, the
\* start message, one generic error message for every earlier attempt that
\* ended in an unexpected exception, the success message and the
\* payment-complete message.
C6_MessagesOfPaidJob ==
    \A t \in Threads :
        PaidJobDone(t) =>
            /\ texit[t] = "completed"
            /\ unexpected[t] <= attempt[t] - 1
            /\ Kinds(sent[t]) =
                 <<"start">> \o Errors(unexpected[t]) \o <<"success", "payment_complete">>
            /\ Settled(t) => status = "completed" /\ ~running

\* C6 witness: a paid job that ended completed on its first and only attempt.
C6_Witness ==
    \E t \in Threads :
        /\ PaidJobDone(t)
        /\ Settled(t)
        /\ attempt[t] = 1
        /\ Len(sent[t]) = 3

\* Job t has ended after a reservation that succeeded, with a card that
\* lacks at least one of its four fields.
UnpaidJobDone(t) ==
    /\ tpc[t] = "done"
    /\ ~HasPaymentInfo(tctx[t])
    /\ Called(t, "reserve", "ok")

\* C7: a job with an incomplete card never calls pay; when its reservation
\* succeeds it ends completed, and its messages other than the error
\* messages of earlier attempts are start, success, payment required.
C7_IncompleteCardSkipsPayment ==
    \A t \in Threads :
        /\ tctx[t].card # CardFields =>
             \A i \in 1..Len(calls[t]) : calls[t][i].op # "pay"
        /\ UnpaidJobDone(t) =>
             /\ texit[t] = "completed"
             /\ Without(Kinds(sent[t]), "error") = <<"start", "success", "payment_required">>
             /\ Kinds(sent[t])[1] = "start"
             /\ Settled(t) => status = "completed" /\ ~running

\* C7 witness: the job with three of the four card fields ended completed.
C7_Witness ==
    \E t \in Threads :
        /\ UnpaidJobDone(t)
        /\ tjob[t] = KtxPartialCardPayload
        /\ Settled(t)
        /\ status = "completed"

\* The pay call of the current attempt of t returned false or raised.
PayFailed(t) == Called(t, "pay", "false") \/ Called(t, "pay", "raise")

\* C8: once pay has returned false or raised, the attempt goes on to success:
\* the last message is payment required, no payment-complete message exists,
\* the loop only marks the job completed and returns, with no further attempt.
C8_PaymentFailureStillCompletes ==
    \A t \in Threads :
        PayFailed(t) =>
            /\ tpc[t] \in {"run96", "run97", "run98", "done"}
            /\ Called(t, "reserve", "ok")
            /\ sent[t][Len(sent[t])].kind = "payment_required"
            /\ Count(Kinds(sent[t]), "payment_required") = 1
            /\ Count(Kinds(sent[t]), "payment_complete") = 0
            /\ tpc[t] = "done" => texit[t] = "completed"
            /\ Settled(t) => status = "completed" /\ ~running

\* C8 witness: pay raised and the job ended completed.
C8_Witness ==
    \E t \in Threads :
        /\ Called(t, "pay", "raise")
        /\ Settled(t)
        /\ status = "completed"

\* C9: a loop that is alive after stop() was called ends; the step that tests
\* the cleared flag at line 90 begins no attempt and returns; and no step of
\* a handler moves a thread (the attempt in flight runs on).
C9_StopEndsTheLoop ==
    /\ \A t \in Threads : (IsAlive(t) /\ tstop[t]) ~> ~IsAlive(t)
    /\ [][\A t \in Threads :
            /\ (tpc[t] = "run90" /\ ~running /\ tpc'[t] # "run90")
                 => tpc'[t] = "done" /\ texit'[t] = "flag" /\ attempt'[t] = attempt[t]
            /\ (IsAlive(t) /\ \E h \in Handlers : hpc'[h] # hpc[h])
                 => tpc'[t] = tpc[t] /\ calls'[t] = calls[t]]_vars

\* C9 witness: stop() came during the first attempt, which ran to its end
\* (no seats, backoff), and the loop returned at its next test of the flag.
C9_Witness ==
    \E t \in Threads :
        /\ texit[t] = "flag"
        /\ tstop[t]
        /\ attempt[t] = 1
        /\ sleeps[t] = 1
        /\ Called(t, "search", "no_seats")

\* C10: a job started with a payload that has no selected train makes no
\* call and no attempt, sends nothing, and ends rejected with status stopped
\* and the flag cleared.
C10_EmptySelectionIsRejected ==
    \A t \in Threads :
        (tpc[t] \in {"done", "crashed"} /\ ~tjob[t].sel) =>
            /\ texit[t] = "rejected"
            /\ attempt[t] = 0
            /\ calls[t] = <<>>
            /\ sent[t] = <<>>
            /\ Settled(t) => status = "stopped" /\ ~running

\* C11: while a job whose payload has no selected train is being started and
\* until its loop has rejected it, status is never "running".
C11_EmptySelectionNeverRunning ==
    /\ \A h \in Handlers :
         (hpc[h] \in {"start65", "start66", "start67"} /\ ~harg[h].sel)
             => status # "running"
    /\ \A t \in Threads :
         (tpc[t] \in {"new", "run78", "run82"} /\ ~tjob[t].sel)
             => status # "running"

\* C12: every change of status is idle -> running, running -> completed or
\* running -> stopped, or a return to running by an accepted start(): it
\* becomes completed or stopped only from running, becomes running only at
\* line 64 of start(), and never becomes idle again.
C12_StatusFollowsStateMachine ==
    [][status' # status =>
          /\ status' # "idle"
          /\ status' \in {"completed", "stopped"} => status = "running"
          /\ status' = "running" =>
               \E h \in Handlers : hpc[h] = "start64" /\ hpc'[h] = "start65"]_vars

\* The step of thread t that ends _run_loop.
Ends(t) == tpc[t] \notin {"done", "crashed"} /\ tpc'[t] \in {"done", "crashed"}

NoTrainOrNoSeats(t) ==
    /\ calls[t] # <<>>
    /\ calls[t][Len(calls[t])].op = "search"
    /\ calls[t][Len(calls[t])].res \in {"not_found", "no_seats"}

\* C14: the handler of an attempt's failure hands over exactly one generic
\* error message and goes to the backoff when the exception is no
\* RuntimeError, and hands over nothing when the attempt found no train or no
\* seats; a generic error message comes from no other step.
C14_OnlyUnexpectedFailuresNotify ==
    /\ [](\A t \in Threads :
            (tpc[t] = "except" /\ NoTrainOrNoSeats(t)) => texc[t] = "RuntimeError")
    /\ [][\A t \in Threads :
            /\ (tpc[t] = "except" /\ tpc'[t] # "except"
                  /\ texc[t] \in {"Exception", "Exception:WRR800029"})
                 => /\ sent'[t] = Append(sent[t], Msg("error", ""))
                    /\ tpc'[t] = "run112"
            /\ (tpc[t] = "except" /\ tpc'[t] # "except" /\ texc[t] = "RuntimeError")
                 => sent'[t] = sent[t] /\ tpc'[t] = "run112"
            /\ Count(Kinds(sent'[t]), "error") > Count(Kinds(sent[t]), "error")
                 => tpc[t] = "except" /\ texc[t] \in {"Exception", "Exception:WRR800029"}]_vars

\* C14 witness: the search raised an unexpected exception, the error message
\* went out, and the loop is at its backoff.
C14_Witness ==
    \E t \in Threads :
        /\ tpc[t] = "run112"
        /\ texc[t] = "Exception"
        /\ Called(t, "search", "Exception")
        /\ Kinds(sent[t]) = <<"start", "error">>

\* No start() and no stop() is in progress.
NoRequestInProgress == \A h \in Handlers : hpc[h] \in {"idle", "status285"}

\* C15: status "running" implies that the loop is alive or being launched
\* (or that a stop() is about to write the status); and when the thread of
\* the last started job is no longer alive and no request is in progress,
\* status is completed or stopped and the flag is cleared.
C15_EndsInWellDefinedState ==
    /\ status = "running" =>
         \/ thread # 0 /\ (IsAlive(thread) \/ tpc[thread] = "new")
         \/ \E h \in Handlers : hpc[h] \in {"start65", "start66", "start67", "stop72"}
    /\ (thread # 0 /\ tpc[thread] \in {"done", "crashed"} /\ NoRequestInProgress)
         => status \in {"completed", "stopped"} /\ ~running

\* Where the caller of _send_telegram goes on after the call, by the state
\* before the call alone.
CallerGoesOn(t) ==
    CASE tpc[t] = "run87" -> "run90"
      [] tpc[t] = "notify" -> "pay"
      [] tpc[t] = "pay" -> "run96"
      [] tpc[t] = "except" ->
           IF texc[t] = "RuntimeError:WRR800029" THEN "run104" ELSE "run112"
      [] OTHER -> "none"

\* C16: a step that hands a message to _send_telegram changes no field of the
\* server, no carrier call and no local of the loop, and leaves the loop at
\* the line that follows the call, whatever became of the delivery; no
\* thread ends by an exception of a send.
C16_DeliveryNeverAffectsWorker ==
    /\ [](\A t \in Threads : tpc[t] = "crashed" => texit[t] \in {"crash78", "crash87"})
    /\ [][\A t \in Threads :
            sent'[t] # sent[t] /\ tpc[t] \notin {"done", "crashed"} =>
                /\ delivery'[t] \in SendOutcomes
                /\ tpc'[t] = CallerGoesOn(t)
                /\ UNCHANGED <<server, attempt, tctx, tseat, texit, sleeps>>
                /\ calls'[t] = calls[t] \/ tpc[t] = "pay"]_vars

\* C16 witness: the send of the payment message raised and the loop went on
\* to mark the job completed.
C16_Witness ==
    \E t \in Threads :
        /\ delivery[t] = "raise"
        /\ tpc[t] = "run96"
        /\ sent[t][Len(sent[t])].kind = "payment_complete"

\* C17: status, last message and active payload change only in steps of the
\* background loop, never in a step of a request handler.
C17_OnlyTheLoopWritesSharedFields ==
    [][(status' # status \/ last_message' # last_message
          \/ active_payload' # active_payload)
         => \A h \in Handlers : hpc'[h] = hpc[h]]_vars

\* C18: _extract_run_context raises on no request body and returns a context
\* with every key populated.
C18_ExtractNeverRaises ==
    applied.fn = "_extract_run_context" =>
        /\ applied.out.exc = "none"
        /\ DOMAIN applied.out.val = {"user_id", "adult", "selected_train_no"}

\* C19: through _to_non_negative_int a numeric field keeps a non-negative
\* integer as it is and takes the field's default for an input that is no
\* number or is negative.
C19_NumericFieldsKeepOrDefault ==
    applied.fn = "_to_non_negative_int" =>
        LET v == applied.arg.value
            d == FieldDefault(applied.arg.field)
        IN  /\ (v.k = "int" /\ v.n >= 0) => applied.out = Returns(v.n)
            /\ (v.k \in {"text", "none"} \/ (v.k \in {"int", "str"} /\ v.n < 0))
                 => applied.out = Returns(d)

\* Every character of s is one of 0..9.
Numeric(s) == \A i \in 1..Len(s) : s[i] \in AsciiDigits

\* Four digits that spell an hour 0-23 and a minute 0-59.
ValidHhmm(s) ==
    /\ Len(s) = 4
    /\ Numeric(s)
    /\ IntOf(SubSeq(s, 1, 2)) <= 23
    /\ IntOf(SubSeq(s, 3, 4)) <= 59

\* C20: _normalize_time_to_hhmm never raises; it returns a valid 4-digit time
\* unchanged, treats a 6-digit numeric string as its first four digits, and
\* returns "0700" for every other input.
C20_NormalizeTimeIsTotal ==
    applied.fn = "_normalize_time_to_hhmm" =>
        LET s == applied.arg.s
        IN  /\ applied.out.exc = "none"
            /\ IF ValidHhmm(s) THEN applied.out.val = s
               ELSE IF Len(s) = 6 /\ Numeric(s) /\ ValidHhmm(SubSeq(s, 1, 4))
                    THEN applied.out.val = SubSeq(s, 1, 4)
               ELSE applied.out.val = DefaultTime

\* C21: _normalize_date_yyyymmdd returns every string of 8 digits unchanged,
\* and returns today's date for every other input: a missing value, a string
\* of another length, a string with a character that is no digit.
C21_DateIsKeptOrToday ==
    applied.fn = "_normalize_date_yyyymmdd" =>
        LET value == applied.arg.value
        IN  /\ applied.out.exc = "none"
            /\ IF value.given /\ Len(value.s) = 8 /\ Numeric(value.s)
               THEN applied.out.val = value.s
               ELSE applied.out.val = applied.arg.today

\* The body's value of a field that may be nested: what the group holds
\* under the key when the group is a dict, else nothing.
Nested(kind, v, nothing) == IF kind = "dict" THEN v ELSE nothing

\* C22: for a field that may appear nested or flat, _extract_run_context uses
\* the group's value when the group supplies one, otherwise the top-level
\* value, otherwise the field's default. Stated for the bodies where it is
\* plain what is supplied: a non-empty string or a non-negative integer is,
\* an absent key or null is not.
C22_NestedThenFlatThenDefault ==
    (applied.fn = "_extract_run_context" /\ applied.out.exc = "none") =>
        LET raw == applied.arg
            out == applied.out.val
            Text(v) == v \in {"text", "padded", "other"}
            Missing(v) == v \in {"absent", "null"}
            Stripped(v) == IF v = "padded" THEN "text" ELSE v
            IsCount(v) == v.k = "int" /\ v.n >= 0
            NoCount(v) == v.k \in {"absent", "none"}
            user_id == Nested(raw.login, raw.login_user_id, "absent")
            selected == Nested(raw.search, raw.search_selected_train_no, "absent")
            adult == Nested(raw.search, raw.search_adult, Num("absent", 0))
        IN  /\ Text(user_id) => out.user_id = Stripped(user_id)
            /\ (Missing(user_id) /\ Text(raw.user_id)) => out.user_id = Stripped(raw.user_id)
            /\ (Missing(user_id) /\ Missing(raw.user_id)) => out.user_id = "empty"
            /\ Text(selected) => out.selected_train_no = Stripped(selected)
            /\ (Missing(selected) /\ Text(raw.selected_train_no))
                 => out.selected_train_no = Stripped(raw.selected_train_no)
            /\ (Missing(selected) /\ Missing(raw.selected_train_no))
                 => out.selected_train_no = "empty"
            /\ IsCount(adult) => out.adult = adult.n
            /\ (NoCount(adult) /\ IsCount(raw.adult)) => out.adult = raw.adult.n
            /\ (NoCount(adult) /\ NoCount(raw.adult)) => out.adult = FieldDefault("adult")

\* An option mapping has been applied.
OptionMapped == applied.fn \in {"_to_ktx_reserve_option", "_to_srt_reserve_option"}

\* C23 as stated: for both carriers each of the four recognized preferences
\* maps to the option of the same name, every other preference string maps
\* to general-first, and the mapping never fails.
C23_FourValuesElseGeneralFirst ==
    OptionMapped =>
        /\ applied.out.exc = "none"
        /\ applied.out.val = IF applied.arg \in MappingKeys THEN OptionOf(applied.arg)
                             ELSE "GENERAL_FIRST"

\* C23, amended: the preference is compared without regard to letter case. A
\* preference that spells one of the four recognized values in any letter
\* case maps to the option of the same name, every other preference maps to
\* general-first, and the mapping never fails.
C23_FourValuesInAnyCaseElseGeneralFirst ==
    OptionMapped =>
        /\ applied.out.exc = "none"
        /\ applied.out.val =
             IF applied.arg.spelling \in {"lower", "capitals"}
                /\ SeatPreference(applied.arg.word, "lower") \in MappingKeys
             THEN OptionOf(applied.arg)
             ELSE "GENERAL_FIRST"

\* "SPECIAL_ONLY" has been mapped to the KTX option SPECIAL_ONLY.
C23_Witness ==
    /\ applied.fn = "_to_ktx_reserve_option"
    /\ applied.arg = SeatPreference("special_only", "capitals")
    /\ applied.out = Returns("SPECIAL_ONLY")

\* The calls of thread t's current attempt include a reserve call.
ReserveCalled(t) == \E i \in 1..Len(calls[t]) : calls[t][i].op = "reserve"

\* The current attempt of thread t has stopped short of reserve: its login
\* raised, or its search raised, lacked the train or found it without seats.
StoppedShort(t) ==
    /\ calls[t] # <<>>
    /\ LET last == calls[t][Len(calls[t])]
       IN  \/ last.op = "login" /\ last.res # "ok"
           \/ last.op = "search" /\ last.res # "available"

\* C24: within one attempt reserve is called only after login has returned
\* and the search result holds the selected train with at least one of its
\* availability flags true; otherwise the attempt fails without a reserve
\* call.
C24_ReserveOnlyAfterLoginAndSearch ==
    \A t \in Threads :
        /\ \A i \in 1..Len(calls[t]) :
             calls[t][i].op = "reserve" =>
                 /\ i = 3
                 /\ calls[t][1] = Call("login", "ok")
                 /\ calls[t][2] = Call("search", "available")
        /\ StoppedShort(t) =>
             /\ ~ReserveCalled(t)
             /\ texc[t] # "none"
             /\ tpc[t] \notin {"search", "reserve", "enrich", "notify", "pay",
                               "run96", "run97", "run98"}

\* An attempt has called reserve after its login and its search.
C24_Witness ==
    \E t \in Threads :
        /\ ReserveCalled(t)
        /\ Len(calls[t]) = 3
        /\ calls[t][2] = Call("search", "available")

\* C25: after reserve has succeeded, a failure of the seat-detail lookup does
\* not fail the reservation: the attempt goes on to its success message,
\* which carries the seat-preference label as seat description, and the job
\* ends completed.
C25_EnrichmentFailureStillCompletes ==
    \A t \in Threads :
        Called(t, "ticket_info", "raise") =>
            /\ Called(t, "reserve", "ok")
            /\ tpc[t] \in {"notify", "pay", "run96", "run97", "run98", "done"}
            /\ texc[t] = "none"
            /\ tseat[t] = "label"
            /\ tpc[t] # "notify" =>
                 /\ Count(sent[t], Msg("success", "label")) = 1
                 /\ Count(Kinds(sent[t]), "success") = 1
            /\ tpc[t] = "done" => texit[t] = "completed"
            /\ Settled(t) => status = "completed" /\ ~running

\* C25 witness: a job whose seat-detail lookup raised has ended completed.
C25_Witness ==
    \E t \in Threads :
        /\ Called(t, "ticket_info", "raise")
        /\ Has(sent[t], Msg("success", "label"))
        /\ Settled(t)
        /\ status = "completed"

\* C26: within one job reserve succeeds at most once. After a successful
\* reserve the thread begins no other attempt and makes no login, search or
\* reserve call, whatever the seat lookup, the notifications and the payment
\* do: from then on its only carrier calls are ticket_info and pay.
C26_NoCallAfterSuccessfulReserve ==
    [][\A t \in Threads :
          (Called(t, "reserve", "ok") /\ tpc'[t] # "freed") =>
              /\ attempt'[t] = attempt[t]
              /\ tpc'[t] \notin {"run90", "run92", "login", "search", "reserve", "except"}
              /\ Len(calls'[t]) >= Len(calls[t])
              /\ SubSeq(calls'[t], 1, Len(calls[t])) = calls[t]
              /\ \A i \in (Len(calls[t]) + 1)..Len(calls'[t]) :
                   calls'[t][i].op \in {"ticket_info", "pay"}
              /\ Count([i \in 1..Len(calls'[t]) |-> calls'[t][i].op], "reserve") = 1]_vars

\* C26 witness: after a successful reserve the seat lookup raised and the
\* payment raised, and the job has ended after that one attempt's calls.
C26_Witness ==
    \E t \in Threads :
        /\ tpc[t] = "done"
        /\ calls[t] = <<Call("login", "ok"), Call("search", "available"),
                        Call("reserve", "ok"), Call("ticket_info", "raise"),
                        Call("pay", "raise")>>

\* A stop() called since the current job's thread was created has returned,
\* and no start() has been accepted since.
StopHasReturned ==
    /\ thread # 0
    /\ tstop[thread]
    /\ \A h \in Handlers : hpc[h] \notin StartBody \cup {"stop72", "stop73", "stop74"}

\* C27: once stop() has returned, status stays stopped, the last message
\* stays the one stop() wrote and the active payload stays empty until a
\* later start() is accepted, whatever the loop that is still alive does.
C27_StoppedStaysStopped ==
    [][(StopHasReturned /\ StopHasReturned') =>
          /\ status' = status
          /\ last_message' = last_message
          /\ active_payload' = EmptyPayload]_vars

\* C28: a start(P) whose guard runs after stop() has returned and while the
\* stopped job's thread is still alive is dropped: no thread is created for
\* P, the running flag stays cleared, status is not set to running and the
\* active payload stays empty.
C28_StartAfterStopIsDropped ==
    [][\A h \in Handlers :
          (/\ hpc[h] = "start59"
           /\ hpc'[h] # "start59"
           /\ StopHasReturned
           /\ IsAlive(thread))
          => /\ hpc'[h] = "idle"
             /\ hret'[h] = "dropped"
             /\ ~running'
             /\ status' = status /\ status' # "running"
             /\ active_payload' = EmptyPayload
             /\ nthreads' = nthreads /\ thread' = thread
             /\ UNCHANGED <<tpc, tjob>>]_vars

\* C28 witness: a start() has been dropped after a stop(), while the stopped
\* job's thread waits for its search to return.
C28_Witness ==
    /\ hret[1] = "dropped"
    /\ StopHasReturned
    /\ tpc[thread] = "search"
    /\ ~running
    /\ status = "stopped"
    /\ active_payload = EmptyPayload
    /\ nthreads = 1

====
